---- MODULE Spec2Model ----
(***************************************************************************)
(* convert_img (src/src/main.rs): perceptual-hash deduplication of a       *)
(* source tree, conversion of the admitted images to AVIF, the `hashes`    *)
(* log under the output directory, and the rebuild of that log.            *)
(*                                                                         *)
(* Text is a sequence of characters.  A character is a number: 0..63 are   *)
(* the base64 alphabet (the value of the digit), Sharp is an ASCII         *)
(* character outside the alphabet ('#'), NL is '\n', BadByte is a byte     *)
(* that is not valid UTF-8.  An image hash is a sequence of bits.          *)
(***************************************************************************)
EXTENDS Integers, Sequences, FiniteSets, TLC

\* hash.dist(&origin_hash) < 10
THRESHOLD == 10

\* bounds of the model
MaxThreads == 2
MaxImages == 2
MaxEntries == 2
MaxFaults == 1
MaxRuns == 2

Sharp == 64
NL == 65
BadByte == 66

Min(a, b) == IF a < b THEN a ELSE b

\* 2^n
RECURSIVE Pow2(_)
Pow2(n) == IF n = 0 THEN 1 ELSE 2 * Pow2(n - 1)

(***************************************************************************)
(* image_hasher::ImageHash                                                 *)
(***************************************************************************)

\* ImageHash::dist: Hamming distance, bytes zipped (the shorter hash decides)
dist(a, b) == Cardinality({i \in 1..Min(Len(a), Len(b)) : a[i] # b[i]})

\* ImageHash::to_base64: one digit per six bits, most significant bit first
to_base64(h) ==
  [k \in 1..(Len(h) \div 6) |->
     h[6*k - 5] * 32 + h[6*k - 4] * 16 + h[6*k - 3] * 8
       + h[6*k - 2] * 4 + h[6*k - 1] * 2 + h[6*k]]

\* ImageHash::from_base64: Err unless the text is whole base64 quanta
Base64Ok(line) ==
  /\ Len(line) > 0
  /\ Len(line) % 4 = 0
  /\ \A i \in 1..Len(line) : line[i] \in 0..63

from_base64(line) ==
  [i \in 1..(6 * Len(line)) |->
     (line[((i - 1) \div 6) + 1] \div Pow2(5 - ((i - 1) % 6))) % 2]

(***************************************************************************)
(* std: str::lines, fs::read_to_string                                     *)
(***************************************************************************)

\* str::lines: split at '\n'; a final line needs no terminator
RECURSIVE SplitLines(_, _)
SplitLines(s, cur) ==
  IF s = <<>>
    THEN (IF cur = <<>> THEN <<>> ELSE <<cur>>)
    ELSE IF Head(s) = NL
      THEN <<cur>> \o SplitLines(Tail(s), <<>>)
      ELSE SplitLines(Tail(s), Append(cur, Head(s)))

lines(s) == SplitLines(s, <<>>)

\* fs::read_to_string is Ok only for valid UTF-8
Utf8Ok(s) == \A i \in 1..Len(s) : s[i] # BadByte

\* the hashes of the lines of a text that from_base64 accepts, in order
RECURSIVE ParseLines(_)
ParseLines(ls) ==
  IF ls = <<>> THEN <<>>
  ELSE IF Head(ls) # <<>> /\ Base64Ok(Head(ls))
    THEN <<from_base64(Head(ls))>> \o ParseLines(Tail(ls))
    ELSE ParseLines(Tail(ls))

\* init_hashes: the store loaded from output_dir/hashes (an absent file: empty)
init_hashes(exists, content) ==
  IF exists THEN ParseLines(lines(content)) ELSE <<>>

\* init_hashes panics: read_to_string(...).unwrap() on a file that is not UTF-8
init_hashes_panics(exists, content) == exists /\ ~Utf8Ok(content)

(***************************************************************************)
(* Inputs: source images, output-directory entries, log files              *)
(***************************************************************************)

\* the hash whose first n bits are set (three bytes)
Bits(n) == [i \in 1..24 |-> IF i <= n THEN 1 ELSE 0]

HA == Bits(0)
\* distance 9 from HA
HB == Bits(9)
\* distance 10 from HA, 1 from HB
HC == Bits(10)
\* distance 14 or more from HA, HB and HC
HF == [i \in 1..24 |-> IF i > 10 THEN 1 ELSE 0]

\* an image: its perceptual hash, whether `image` decodes it, whether img2avif encodes it
Image(h, d, e) == [hash |-> h, decodes |-> d, encodes |-> e]

ImageKinds ==
  << Image(HA, TRUE, TRUE), Image(HB, TRUE, TRUE), Image(HC, TRUE, TRUE),
     Image(HA, FALSE, TRUE), Image(HF, TRUE, FALSE) >>

\* the listings of at most n of the kinds K; the loops take the items in any order,
\* so one listing stands for its permutations
Listings(K, n) ==
  UNION { { [i \in 1..k |-> K[f[i]]] :
              f \in {g \in [1..k -> 1..Len(K)] :
                       \A i \in 1..k, j \in 1..k : i < j => g[i] <= g[j]} } :
          k \in 0..n }

\* an entry of the output directory (the `hashes` file aside)
Entry(f, a, im) == [is_file |-> f, avif |-> a, image |-> im]

EntryKinds ==
  << Entry(TRUE, TRUE, Image(HA, TRUE, TRUE)),
     Entry(TRUE, TRUE, Image(HC, TRUE, TRUE)),
     Entry(TRUE, TRUE, Image(HA, FALSE, TRUE)),
     Entry(TRUE, FALSE, Image(HA, TRUE, TRUE)),
     Entry(FALSE, TRUE, Image(HA, FALSE, TRUE)) >>

\* writeln!(file, "{}", hash.to_base64()): the text, then the line terminator
LineOf(h) == to_base64(h) \o <<NL>>

\* contents of output_dir/hashes found at startup
InitialLogs ==
  { <<>>,
    LineOf(HA),
    <<Sharp, NL, NL>> \o LineOf(HF) \o <<0, 0, Sharp, 0, NL>>,
    <<Sharp>>,
    LineOf(HA) \o <<BadByte, NL>> }

(***************************************************************************)
(* State                                                                   *)
(***************************************************************************)
VARIABLES
  rebuild_hashes,  \* args.rebuild_hashes
  source_dir,      \* args.source_dir.is_some()
  threads,         \* args.threads
  srcTree,         \* the images under the source directory
  outDirExists,    \* the output directory exists
  entries,         \* the entries of the output directory, by name
  logExists,       \* output_dir/hashes exists
  logFile,         \* its content
  phase,           \* where main is
  run,             \* the number of this run of the program
  images,          \* main's `images`
  hashesSet,       \* HASHES.set(..) has happened
  HASHES,          \* the Vec inside HASHES
  readers,         \* the workers holding HASHES.read()
  logMutex,        \* the worker holding hashes_file, 0 when free
  logPoisoned,     \* hashes_file is poisoned
  pending,         \* the items par_iter has not handed out
  pc,              \* where each worker's closure is
  img_path,        \* the item each worker's closure runs on
  hash,            \* its `hash` (origin_hash)
  output_path,     \* its `output_path`
  outcome,         \* how the closure of each item ended
  panicked,        \* a closure of the parallel loop has panicked
  hashes,          \* rebuild_hashes's `hashes`
  written,         \* the lines of `hashes` rebuild_hashes has written
  faults           \* the I/O failures the environment has injected

args == <<rebuild_hashes, source_dir, threads, srcTree>>
fs == <<outDirExists, entries, logExists, logFile>>
store == <<hashesSet, HASHES, readers>>
logLock == <<logMutex, logPoisoned>>
workers == <<pending, pc, img_path, hash, output_path, outcome, panicked>>
rebuild == <<hashes, written>>
vars == <<args, fs, phase, run, images, store, logLock, workers, rebuild, faults>>

Workers == 1..threads

\* the process state at the start of main
ProcessInit ==
  /\ phase = "start"
  /\ images = <<>>
  /\ hashesSet = FALSE
  /\ HASHES = <<>>
  /\ readers = {}
  /\ logMutex = 0
  /\ logPoisoned = FALSE
  /\ pending = {}
  /\ pc = [w \in 1..MaxThreads |-> "idle"]
  /\ img_path = [w \in 1..MaxThreads |-> 0]
  /\ hash = [w \in 1..MaxThreads |-> <<>>]
  /\ output_path = [w \in 1..MaxThreads |-> 0]
  /\ outcome = [i \in 1..Len(srcTree) |-> "none"]
  /\ panicked = FALSE
  /\ hashes = <<>>
  /\ written = 0

Init ==
  /\ rebuild_hashes \in BOOLEAN
  /\ source_dir \in BOOLEAN
  /\ threads \in 1..MaxThreads
  /\ faults = 0
  /\ run = 1
  /\ \/ /\ rebuild_hashes
        /\ srcTree \in (IF source_dir THEN Listings(ImageKinds, 1) ELSE {<<>>})
        /\ outDirExists \in BOOLEAN
        /\ entries \in (IF outDirExists THEN Listings(EntryKinds, MaxEntries) ELSE {<<>>})
        /\ logExists \in (IF outDirExists THEN BOOLEAN ELSE {FALSE})
     \/ /\ ~rebuild_hashes
        /\ srcTree \in (IF source_dir THEN Listings(ImageKinds, MaxImages) ELSE {<<>>})
        /\ outDirExists \in BOOLEAN
        /\ entries = <<>>
        /\ logExists = outDirExists
  /\ logFile \in (IF logExists THEN InitialLogs ELSE {<<>>})
  /\ ProcessInit

(***************************************************************************)
(* main, up to the parallel loop                                           *)
(***************************************************************************)


\* a slip of ParseArgs: a missing source directory is taken as an empty listing
ParseArgsNoSourceIsEmpty ==
  /\ phase = "start"
  /\ IF rebuild_hashes
       THEN phase' = "rebuild" /\ images' = images
       ELSE phase' = "mkdir" /\ images' = srcTree
  /\ UNCHANGED <<args, fs, run, store, logLock, workers, rebuild, faults>>

\* main:59-64 the mode switch; source_dir.expect(..); find_all_img_recusive
ParseArgs ==
  /\ phase = "start"
  /\ IF rebuild_hashes
       THEN phase' = "rebuild" /\ images' = images
       ELSE IF ~source_dir
         THEN phase' = "abort_startup" /\ images' = images
         ELSE phase' = "mkdir" /\ images' = srcTree
  /\ UNCHANGED <<args, fs, run, store, logLock, workers, rebuild, faults>>

\* main:66-69 create_dir_all(output_dir)
CreateOutputDir ==
  /\ phase = "mkdir"
  /\ outDirExists' = TRUE
  /\ phase' = "init"
  /\ UNCHANGED <<args, entries, logExists, logFile, run, images, store, logLock,
                 workers, rebuild, faults>>

\* main:68 create_dir_all(..).unwrap() on an I/O error
CreateOutputDirFail ==
  /\ phase = "mkdir"
  /\ ~outDirExists
  /\ faults < MaxFaults
  /\ faults' = faults + 1
  /\ phase' = "abort_startup"
  /\ UNCHANGED <<args, fs, run, images, store, logLock, workers, rebuild>>

\* main:71-73 HASHES.set(init_hashes(&args.output_dir))
InitHashes ==
  /\ phase = "init"
  /\ ~init_hashes_panics(logExists, logFile)
  /\ HASHES' = init_hashes(logExists, logFile)
  /\ hashesSet' = TRUE
  /\ phase' = "open"
  /\ UNCHANGED <<args, fs, run, images, readers, logLock, workers, rebuild, faults>>

\* init_hashes:171 read_to_string(..).unwrap() panics
InitHashesPanic ==
  /\ phase = "init"
  /\ init_hashes_panics(logExists, logFile)
  /\ phase' = "abort_startup"
  /\ UNCHANGED <<args, fs, run, images, store, logLock, workers, rebuild, faults>>


\* a slip of OpenLog: the file is opened with truncate instead of append
OpenLogTruncates ==
  /\ phase = "open"
  /\ logExists' = TRUE
  /\ logFile' = <<>>
  /\ pending' = 1..Len(images)
  /\ phase' = "par"
  /\ UNCHANGED <<args, outDirExists, entries, run, images, store, logLock,
                 pc, img_path, hash, output_path, outcome, panicked, rebuild, faults>>

\* main:75-85 open hashes with create and append; the parallel loop starts
OpenLog ==
  /\ phase = "open"
  /\ logExists' = TRUE
  /\ pending' = 1..Len(images)
  /\ phase' = "par"
  /\ UNCHANGED <<args, outDirExists, entries, logFile, run, images, store, logLock,
                 pc, img_path, hash, output_path, outcome, panicked, rebuild, faults>>

\* main:81 OpenOptions::open(..).unwrap() on an I/O error
OpenLogFail ==
  /\ phase = "open"
  /\ faults < MaxFaults
  /\ faults' = faults + 1
  /\ phase' = "abort_startup"
  /\ UNCHANGED <<args, fs, run, images, store, logLock, workers, rebuild>>

(***************************************************************************)
(* The closure of images.par_iter().for_each, run by worker w              *)
(***************************************************************************)


\* a slip of IsDuplicate: a hash at exactly the threshold counts as a duplicate
IsDuplicateAtThreshold(stored, h) ==
  \E k \in 1..Len(stored) : dist(stored[k], h) <= THRESHOLD

\* compare_hash:157-161 some stored hash is nearer than the threshold
IsDuplicate(stored, h) ==
  \E k \in 1..Len(stored) : dist(stored[k], h) < THRESHOLD

\* the closure of worker w ends with `how`; its locals go out of scope
Ends(w, how) ==
  /\ pc' = [pc EXCEPT ![w] = "idle"]
  /\ outcome' = [outcome EXCEPT ![img_path[w]] = how]
  /\ img_path' = [img_path EXCEPT ![w] = 0]
  /\ hash' = [hash EXCEPT ![w] = <<>>]
  /\ output_path' = [output_path EXCEPT ![w] = 0]

\* a panic inside the closure: rayon keeps it for the end of the loop
Panics(w) ==
  /\ Ends(w, "Panicked")
  /\ panicked' = TRUE

\* rayon hands item i to an idle worker (the workers are alike: the first idle one);
\* compare_hash:148-155 decodes and hashes the image, no lock held, then takes
\* HASHES.get().unwrap().read().unwrap()
Take(w, i) ==
  /\ phase = "par"
  /\ pc[w] = "idle"
  /\ \A v \in 1..(w - 1) : pc[v] # "idle"
  /\ i \in pending
  /\ images[i].decodes
  /\ pending' = pending \ {i}
  /\ img_path' = [img_path EXCEPT ![w] = i]
  /\ hash' = [hash EXCEPT ![w] = images[i].hash]
  /\ readers' = readers \cup {w}
  /\ pc' = [pc EXCEPT ![w] = "scan"]
  /\ UNCHANGED <<args, fs, phase, run, images, hashesSet, HASHES, logLock, output_path,
                 outcome, panicked, rebuild, faults>>

\* compare_hash:148-150 returns Err; main:111-114
TakeDecodeErr(w, i) ==
  /\ phase = "par"
  /\ pc[w] = "idle"
  /\ \A v \in 1..(w - 1) : pc[v] # "idle"
  /\ i \in pending
  /\ ~images[i].decodes
  /\ pending' = pending \ {i}
  /\ outcome' = [outcome EXCEPT ![i] = "Failed"]
  /\ UNCHANGED <<args, fs, phase, run, images, store, logLock, pc, img_path, hash,
                 output_path, panicked, rebuild, faults>>



\* a slip of Scan: the read guard is still alive when the closure goes on
ScanKeepsGuard(w) ==
  /\ pc[w] = "scan"
  /\ IF IsDuplicate(HASHES, hash[w])
       THEN Ends(w, "Rejected") /\ readers' = readers \ {w}
       ELSE /\ pc' = [pc EXCEPT ![w] = "open"]
            /\ UNCHANGED <<outcome, img_path, hash, output_path, readers>>
  /\ UNCHANGED <<args, fs, phase, run, images, hashesSet, HASHES, logLock, pending,
                 panicked, rebuild, faults>>

\* a slip of Scan: the hash of a rejected image is remembered in the store
ScanRecordsRejected(w) ==
  /\ pc[w] = "scan"
  /\ readers' = readers \ {w}
  /\ IF IsDuplicate(HASHES, hash[w])
       THEN Ends(w, "Rejected") /\ HASHES' = Append(HASHES, hash[w])
       ELSE /\ pc' = [pc EXCEPT ![w] = "open"]
            /\ UNCHANGED <<outcome, img_path, hash, output_path, HASHES>>
  /\ UNCHANGED <<args, fs, phase, run, images, hashesSet, logLock, pending,
                 panicked, rebuild, faults>>

\* compare_hash:157-163 the scan; the read guard drops at the return; main:115-117
Scan(w) ==
  /\ pc[w] = "scan"
  /\ readers' = readers \ {w}
  /\ IF IsDuplicate(HASHES, hash[w])
       THEN Ends(w, "Rejected")
       ELSE /\ pc' = [pc EXCEPT ![w] = "open"]
            /\ UNCHANGED <<outcome, img_path, hash, output_path>>
  /\ UNCHANGED <<args, fs, phase, run, images, hashesSet, HASHES, logLock, pending,
                 panicked, rebuild, faults>>

\* main:94-96 File::open(img_path).unwrap(); img2avif succeeds
Encode(w) ==
  /\ pc[w] = "open"
  /\ images[img_path[w]].encodes
  /\ pc' = [pc EXCEPT ![w] = "write"]
  /\ UNCHANGED <<args, fs, phase, run, images, store, logLock, pending, img_path,
                 hash, output_path, outcome, panicked, rebuild, faults>>

\* main:94 File::open fails: unwrap panics
OpenSourceFail(w) ==
  /\ pc[w] = "open"
  /\ faults < MaxFaults
  /\ faults' = faults + 1
  /\ Panics(w)
  /\ UNCHANGED <<args, fs, phase, run, images, store, logLock, pending, rebuild>>

\* a slip of EncodeErr: the hash is kept in the store although the encoding failed
EncodeErrKeepsHash(w) ==
  /\ pc[w] = "open"
  /\ ~images[img_path[w]].encodes
  /\ HASHES' = Append(HASHES, hash[w])
  /\ Ends(w, "ConversionFailed")
  /\ UNCHANGED <<args, fs, phase, run, images, hashesSet, readers, logLock, pending,
                 panicked, rebuild, faults>>

\* main:94-101 img2avif fails: report, count, return
EncodeErr(w) ==
  /\ pc[w] = "open"
  /\ ~images[img_path[w]].encodes
  /\ Ends(w, "ConversionFailed")
  /\ UNCHANGED <<args, fs, phase, run, images, store, logLock, pending,
                 panicked, rebuild, faults>>

\* main:103-104 fs::write(output_path, img) under a fresh name
WriteOutput(w) ==
  /\ pc[w] = "write"
  /\ entries' = Append(entries, Entry(TRUE, TRUE, images[img_path[w]]))
  /\ output_path' = [output_path EXCEPT ![w] = Len(entries) + 1]
  /\ pc' = [pc EXCEPT ![w] = "lock_log"]
  /\ UNCHANGED <<args, outDirExists, logExists, logFile, phase, run, images, store,
                 logLock, pending, img_path, hash, outcome, panicked, rebuild, faults>>

\* main:104 fs::write fails (before the file exists, or leaving a cut file): unwrap panics
WriteOutputFail(w, cut) ==
  /\ pc[w] = "write"
  /\ faults < MaxFaults
  /\ faults' = faults + 1
  /\ entries' = IF cut
                  THEN Append(entries, Entry(TRUE, TRUE,
                         [images[img_path[w]] EXCEPT !.decodes = FALSE]))
                  ELSE entries
  /\ Panics(w)
  /\ UNCHANGED <<args, outDirExists, logExists, logFile, phase, run, images, store,
                 logLock, pending, rebuild>>

\* main:107 lock() returns the poison error: unwrap panics
LockLogPoisoned(w) ==
  /\ pc[w] = "lock_log"
  /\ logMutex = 0
  /\ logPoisoned
  /\ Panics(w)
  /\ UNCHANGED <<args, fs, phase, run, images, store, logLock, pending, rebuild, faults>>



\* a slip of WriteText: the hash is inserted into the store before its line is written
WriteTextInsertsFirst(w) ==
  /\ pc[w] = "lock_log"
  /\ logMutex = 0
  /\ ~logPoisoned
  /\ logMutex' = w
  /\ HASHES' = Append(HASHES, hash[w])
  /\ logFile' = logFile \o to_base64(hash[w])
  /\ pc' = [pc EXCEPT ![w] = "write_nl"]
  /\ UNCHANGED <<args, outDirExists, entries, logExists, phase, run, images, hashesSet,
                 readers, logPoisoned, pending, img_path, hash, output_path, outcome,
                 panicked, rebuild, faults>>

\* a slip of WriteText: the line is written without waiting for the mutex
WriteTextNoLock(w) ==
  /\ pc[w] = "lock_log"
  /\ ~logPoisoned
  /\ logMutex' = w
  /\ logFile' = logFile \o to_base64(hash[w])
  /\ pc' = [pc EXCEPT ![w] = "write_nl"]
  /\ UNCHANGED <<args, outDirExists, entries, logExists, phase, run, images, store,
                 logPoisoned, pending, img_path, hash, output_path, outcome, panicked,
                 rebuild, faults>>

\* main:107 hashes_file.lock().unwrap(); writeln!: the write of the hash text
WriteText(w) ==
  /\ pc[w] = "lock_log"
  /\ logMutex = 0
  /\ ~logPoisoned
  /\ logMutex' = w
  /\ logFile' = logFile \o to_base64(hash[w])
  /\ pc' = [pc EXCEPT ![w] = "write_nl"]
  /\ UNCHANGED <<args, outDirExists, entries, logExists, phase, run, images, store,
                 logPoisoned, pending, img_path, hash, output_path, outcome, panicked,
                 rebuild, faults>>

\* main:107 the write fails after n characters: unwrap panics, the guard poisons the mutex
WriteTextFail(w, n) ==
  /\ pc[w] = "lock_log"
  /\ logMutex = 0
  /\ ~logPoisoned
  /\ faults < MaxFaults
  /\ faults' = faults + 1
  /\ logFile' = logFile \o SubSeq(to_base64(hash[w]), 1, n)
  /\ logMutex' = 0
  /\ logPoisoned' = TRUE
  /\ Panics(w)
  /\ UNCHANGED <<args, outDirExists, entries, logExists, phase, run, images, store,
                 pending, rebuild>>

\* main:107 writeln!: the write of the line terminator; the guard is dropped
WriteNl(w) ==
  /\ pc[w] = "write_nl"
  /\ logFile' = logFile \o <<NL>>
  /\ logMutex' = 0
  /\ pc' = [pc EXCEPT ![w] = "push"]
  /\ UNCHANGED <<args, outDirExists, entries, logExists, phase, run, images, store,
                 logPoisoned, pending, img_path, hash, output_path, outcome, panicked,
                 rebuild, faults>>

\* main:107 the write of the terminator fails: unwrap panics, the mutex is poisoned
WriteNlFail(w) ==
  /\ pc[w] = "write_nl"
  /\ faults < MaxFaults
  /\ faults' = faults + 1
  /\ logMutex' = 0
  /\ logPoisoned' = TRUE
  /\ Panics(w)
  /\ UNCHANGED <<args, fs, phase, run, images, store, pending, rebuild>>


\* a slip of Push: the insert does not wait for the scans that are under way
PushNoWait(w) ==
  /\ pc[w] = "push"
  /\ HASHES' = Append(HASHES, hash[w])
  /\ Ends(w, "Admitted")
  /\ UNCHANGED <<args, fs, phase, run, images, hashesSet, readers, logLock, pending,
                 panicked, rebuild, faults>>

\* main:108-109 HASHES.write().unwrap().push(hash): waits for the readers
Push(w) ==
  /\ pc[w] = "push"
  /\ readers = {}
  /\ HASHES' = Append(HASHES, hash[w])
  /\ Ends(w, "Admitted")
  /\ UNCHANGED <<args, fs, phase, run, images, hashesSet, readers, logLock, pending,
                 panicked, rebuild, faults>>

\* main:119-121 the loop returns, or resumes the panic of a closure
\* (rayon does not run what is left of a panicked job)
Finish ==
  /\ phase = "par"
  /\ \A w \in Workers : pc[w] = "idle"
  /\ pending = {} \/ panicked
  /\ phase' = IF panicked THEN "abort_run" ELSE "done"
  /\ UNCHANGED <<args, fs, run, images, store, logLock, workers, rebuild, faults>>

(***************************************************************************)
(* rebuild_hashes                                                          *)
(***************************************************************************)

\* rebuild_hashes:220 path.is_file() && extension == "avif"
IsOutputImage(e) == e.is_file /\ e.avif



\* a slip of RebuildStart: hashes is opened with truncate before the files are hashed
RebuildStartTruncates ==
  /\ phase = "rebuild"
  /\ IF outDirExists
       THEN /\ phase' = "rb_hash" /\ pending' = 1..Len(entries)
            /\ logExists' = TRUE /\ logFile' = <<>>
       ELSE /\ phase' = "abort_startup" /\ pending' = pending
            /\ UNCHANGED <<logExists, logFile>>
  /\ UNCHANGED <<args, outDirExists, entries, run, images, store, logLock, pc, img_path,
                 hash, output_path, outcome, panicked, rebuild, faults>>

\* a slip of RebuildStart: the rebuild first loads the shared store from the log
RebuildStartLoadsStore ==
  /\ phase = "rebuild"
  /\ IF outDirExists
       THEN phase' = "rb_hash" /\ pending' = 1..Len(entries)
       ELSE phase' = "abort_startup" /\ pending' = pending
  /\ hashesSet' = TRUE
  /\ HASHES' = init_hashes(logExists, logFile)
  /\ UNCHANGED <<args, fs, run, images, readers, logLock, pc, img_path, hash,
                 output_path, outcome, panicked, rebuild, faults>>

\* rebuild_hashes:198-216 read_dir(output_dir).expect(..); the files are collected
RebuildStart ==
  /\ phase = "rebuild"
  /\ IF outDirExists
       THEN phase' = "rb_hash" /\ pending' = 1..Len(entries)
       ELSE phase' = "abort_startup" /\ pending' = pending
  /\ UNCHANGED <<args, fs, run, images, store, logLock, pc, img_path, hash,
                 output_path, outcome, panicked, rebuild, faults>>

\* a slip of RebuildHash: a hash that is already collected is not pushed again
RebuildHashMerges(i) ==
  /\ phase = "rb_hash"
  /\ i \in pending
  /\ IsOutputImage(entries[i])
  /\ entries[i].image.decodes
  /\ hashes' = IF \E k \in 1..Len(hashes) : hashes[k] = entries[i].image.hash
                 THEN hashes
                 ELSE Append(hashes, entries[i].image.hash)
  /\ pending' = pending \ {i}
  /\ UNCHANGED <<args, fs, phase, run, images, store, logLock, pc, img_path, hash,
                 output_path, outcome, panicked, written, faults>>

\* rebuild_hashes:219-230 an output image is decoded, hashed and pushed under the mutex
RebuildHash(i) ==
  /\ phase = "rb_hash"
  /\ i \in pending
  /\ IsOutputImage(entries[i])
  /\ entries[i].image.decodes
  /\ hashes' = Append(hashes, entries[i].image.hash)
  /\ pending' = pending \ {i}
  /\ UNCHANGED <<args, fs, phase, run, images, store, logLock, pc, img_path, hash,
                 output_path, outcome, panicked, written, faults>>

\* rebuild_hashes:220 any other entry is passed over
RebuildSkip(i) ==
  /\ phase = "rb_hash"
  /\ i \in pending
  /\ ~IsOutputImage(entries[i])
  /\ pending' = pending \ {i}
  /\ UNCHANGED <<args, fs, phase, run, images, store, logLock, pc, img_path, hash,
                 output_path, outcome, panicked, rebuild, faults>>

\* rebuild_hashes:221-226 the decode fails: unwrap panics
RebuildDecodePanic(i) ==
  /\ phase = "rb_hash"
  /\ i \in pending
  /\ IsOutputImage(entries[i])
  /\ ~entries[i].image.decodes
  /\ pending' = pending \ {i}
  /\ panicked' = TRUE
  /\ UNCHANGED <<args, fs, phase, run, images, store, logLock, pc, img_path, hash,
                 output_path, outcome, rebuild, faults>>

\* rebuild_hashes:232 the loop resumes the panic of a closure
RebuildAbort ==
  /\ phase = "rb_hash"
  /\ panicked
  /\ phase' = "abort_run"
  /\ UNCHANGED <<args, fs, run, images, store, logLock, workers, rebuild, faults>>

\* rebuild_hashes:234-239 hashes is opened with create and truncate
RebuildOpen ==
  /\ phase = "rb_hash"
  /\ pending = {}
  /\ ~panicked
  /\ logExists' = TRUE
  /\ logFile' = <<>>
  /\ phase' = "rb_write"
  /\ UNCHANGED <<args, outDirExists, entries, run, images, store, logLock, workers,
                 rebuild, faults>>

\* rebuild_hashes:239 open(..).unwrap() on an I/O error
RebuildOpenFail ==
  /\ phase = "rb_hash"
  /\ pending = {}
  /\ ~panicked
  /\ faults < MaxFaults
  /\ faults' = faults + 1
  /\ phase' = "abort_run"
  /\ UNCHANGED <<args, fs, run, images, store, logLock, workers, rebuild>>

\* rebuild_hashes:240-242 one line per collected hash
RebuildWrite ==
  /\ phase = "rb_write"
  /\ written < Len(hashes)
  /\ logFile' = logFile \o LineOf(hashes[written + 1])
  /\ written' = written + 1
  /\ UNCHANGED <<args, outDirExists, entries, logExists, phase, run, images, store,
                 logLock, workers, hashes, faults>>

\* rebuild_hashes:241 the write fails after n characters of the line: unwrap panics
RebuildWriteFail(n) ==
  /\ phase = "rb_write"
  /\ written < Len(hashes)
  /\ faults < MaxFaults
  /\ faults' = faults + 1
  /\ logFile' = logFile \o SubSeq(LineOf(hashes[written + 1]), 1, n)
  /\ phase' = "abort_run"
  /\ UNCHANGED <<args, outDirExists, entries, logExists, run, images, store, logLock,
                 workers, rebuild>>

\* rebuild_hashes:244-248 and main:61
RebuildDone ==
  /\ phase = "rb_write"
  /\ written = Len(hashes)
  /\ phase' = "done"
  /\ UNCHANGED <<args, fs, run, images, store, logLock, workers, rebuild, faults>>

(***************************************************************************)
(* The program is run again with the same arguments on the same files      *)
(***************************************************************************)
Restart ==
  /\ phase = "done"
  /\ ~rebuild_hashes
  /\ run < MaxRuns
  /\ run' = run + 1
  /\ phase' = "start"
  /\ images' = <<>>
  /\ hashesSet' = FALSE
  /\ HASHES' = <<>>
  /\ img_path' = [w \in 1..MaxThreads |-> 0]
  /\ hash' = [w \in 1..MaxThreads |-> <<>>]
  /\ output_path' = [w \in 1..MaxThreads |-> 0]
  /\ outcome' = [i \in 1..Len(srcTree) |-> "none"]
  /\ UNCHANGED <<args, fs, readers, logLock, pending, pc, panicked, rebuild, faults>>

Next ==
  \/ ParseArgs
  \/ CreateOutputDir
  \/ CreateOutputDirFail
  \/ InitHashes
  \/ InitHashesPanic
  \/ OpenLog
  \/ OpenLogFail
  \/ \E w \in Workers, i \in pending : Take(w, i)
  \/ \E w \in Workers, i \in pending : TakeDecodeErr(w, i)
  \/ \E w \in Workers : Scan(w)
  \/ \E w \in Workers : Encode(w)
  \/ \E w \in Workers : OpenSourceFail(w)
  \/ \E w \in Workers : EncodeErr(w)
  \/ \E w \in Workers : WriteOutput(w)
  \/ \E w \in Workers, cut \in BOOLEAN : WriteOutputFail(w, cut)
  \/ \E w \in Workers : WriteText(w)
  \/ \E w \in Workers : LockLogPoisoned(w)
  \/ \E w \in Workers, n \in 0..3 : WriteTextFail(w, n)
  \/ \E w \in Workers : WriteNl(w)
  \/ \E w \in Workers : WriteNlFail(w)
  \/ \E w \in Workers : Push(w)
  \/ Finish
  \/ RebuildStart
  \/ \E i \in pending : RebuildHash(i)
  \/ \E i \in pending : RebuildSkip(i)
  \/ \E i \in pending : RebuildDecodePanic(i)
  \/ RebuildAbort
  \/ RebuildOpen
  \/ RebuildOpenFail
  \/ RebuildWrite
  \/ \E n \in 0..4 : RebuildWriteFail(n)
  \/ RebuildDone

Spec == Init /\ [][Next]_vars

\* two runs of the program in a row
NextRuns ==
  \/ Next
  \/ Restart

SpecRuns == Init /\ [][NextRuns]_vars


\* a normal run
InitNormal == Init /\ ~rebuild_hashes

\* the steps of a normal run in which no I/O operation fails
NextNoFault ==
  \/ ParseArgs
  \/ CreateOutputDir
  \/ InitHashes
  \/ InitHashesPanic
  \/ OpenLog
  \/ \E w \in Workers, i \in pending : Take(w, i)
  \/ \E w \in Workers, i \in pending : TakeDecodeErr(w, i)
  \/ \E w \in Workers : Scan(w)
  \/ \E w \in Workers : Encode(w)
  \/ \E w \in Workers : EncodeErr(w)
  \/ \E w \in Workers : WriteOutput(w)
  \/ \E w \in Workers : WriteText(w)
  \/ \E w \in Workers : WriteNl(w)
  \/ \E w \in Workers : Push(w)
  \/ Finish

\* main and the rayon workers are threads of the operating system: a run does not
\* stop for ever while one of its threads can take a step
SpecFair == InitNormal /\ [][NextNoFault]_vars /\ WF_vars(NextNoFault)

\* the types of the state
TypeOK ==
  /\ phase \in {"start", "mkdir", "init", "open", "par", "done", "abort_startup",
                "abort_run", "rebuild", "rb_hash", "rb_write"}
  /\ run \in 1..MaxRuns
  /\ readers \subseteq Workers
  /\ logMutex \in 0..threads
  /\ \A w \in 1..MaxThreads :
       pc[w] \in {"idle", "scan", "open", "write", "lock_log", "write_nl", "push"}
  /\ \A i \in 1..Len(srcTree) :
       outcome[i] \in {"none", "Failed", "Rejected", "ConversionFailed", "Admitted",
                       "Panicked"}
  /\ faults \in 0..MaxFaults

(***************************************************************************)
(* Properties                                                              *)
(***************************************************************************)

\* the items whose closure ended with `how`
Ended(how) == {i \in 1..Len(images) : outcome[i] = how}

\* the places in HASHES of the hashes pushed during this run (one per admitted item)
AdmittedIdx == (Len(HASHES) - Cardinality(Ended("Admitted")) + 1)..Len(HASHES)

\* the set of the elements of a sequence
Range(q) == {q[i] : i \in 1..Len(q)}

\* how often x occurs in the sequence q
Count(q, x) == Cardinality({i \in 1..Len(q) : q[i] = x})

\* the worker w is between the start of its scan and its insert, on an image
\* that img2avif encodes
InScanToInsert(w) ==
  /\ pc[w] \in {"scan", "open", "write", "lock_log", "write_nl", "push"}
  /\ images[img_path[w]].encodes

\* C1: Dedup invariant: any two distinct hashes admitted into the HashStore during
\* a run are at distance >= THRESHOLD, for any number of workers and any interleaving.
C1_DedupInvariant ==
  \A i \in AdmittedIdx, j \in AdmittedIdx :
    i # j => dist(HASHES[i], HASHES[j]) >= THRESHOLD

\* C2: Scan-and-insert is atomic: while a worker is between the start of its scan
\* and its own insert, no other worker inserts a hash into the HashStore.
C2_ScanInsertAtomic ==
  [][\A w \in Workers :
       (InScanToInsert(w) /\ HASHES' # HASHES) => (pc[w] = "push" /\ pc'[w] = "idle")]_vars

\* the item the step of worker w works on (0: none); a step of w changes pc[w]
StepItem(w) == IF pc[w] = "idle" THEN img_path'[w] ELSE img_path[w]

\* C3: All-or-nothing on encode failure: the closure of a candidate that decodes,
\* passes the admission check and then fails to encode writes no output file,
\* appends nothing to the Log File and leaves the HashStore unchanged in every one
\* of its steps; its failure does not panic, so the run still completes with every
\* candidate decided.
C3_EncodeFailureAtomic ==
  [][/\ \A w \in Workers :
          (/\ pc'[w] # pc[w]
           /\ StepItem(w) # 0
           /\ ~images[StepItem(w)].encodes)
          => (/\ UNCHANGED <<entries, logExists, logFile, hashesSet, HASHES>>
              /\ (faults' = faults => panicked' = panicked))
     /\ (phase = "par" /\ phase' = "done") =>
          \A i \in 1..Len(images) : outcome[i] # "none"]_vars

\* C3 witness: a clean run in which one candidate failed to encode and another was admitted
C3_Witness ==
  /\ phase = "done"
  /\ Ended("ConversionFailed") # {}
  /\ Ended("Admitted") # {}

\* C4: All-or-nothing on I/O failure: when the closure of a candidate ends in a
\* failure of the log append, after its output file was written, nothing of the
\* candidate remains: no output file is left behind and the HashStore is unchanged.
C4_IoFailureAllOrNothing ==
  [][\A w \in Workers :
       (pc[w] \in {"lock_log", "write_nl"} /\ pc'[w] = "idle")
       => (/\ output_path[w] \notin 1..Len(entries')
           /\ HASHES' = HASHES)]_vars

\* C5: Per-item error containment: a failure of one candidate never aborts the run:
\* a normal run that reached the parallel loop does not end in an abort.
C5_ErrorContainment == ~rebuild_hashes => phase # "abort_run"

\* C6: Log/store agreement: at the clean completion of a normal run the set of the
\* hashes parseable from the Log File equals the set of the hashes in the HashStore.
C6_LogStoreAgreement ==
  (phase = "done" /\ ~rebuild_hashes) =>
    Range(init_hashes(logExists, logFile)) = Range(HASHES)

\* C7: Idempotence: a second run over the same sources, after a clean first run,
\* writes no output file, appends nothing to the Log File and inserts nothing into
\* the HashStore (which only the startup load fills).
C7_Idempotence ==
  [][run = 2 =>
       /\ entries' = entries
       /\ logFile' = logFile
       /\ (HASHES' # HASHES => phase = "init")]_vars

\* the hashes of the candidate images the model knows
CandidateHashes == {HA, HB, HC, HF}

\* C8: Persistence round-trip: at the clean completion of a normal run, the store
\* reloaded from the Log File rejects exactly the candidates the HashStore rejects.
C8_PersistenceRoundTrip ==
  (phase = "done" /\ ~rebuild_hashes) =>
    \A h \in CandidateHashes :
      IsDuplicate(init_hashes(logExists, logFile), h) <=> IsDuplicate(HASHES, h)

\* the output images (encoded files) among the entries of the output directory
OutputImages == {i \in 1..Len(entries) : IsOutputImage(entries[i])}

\* C9: Rebuild correctness: when rebuild_hashes has finished, the Log File holds one
\* line per output image in the output directory, as a multiset: each hash text
\* occurs as often as there are output images with that hash, whatever the Log File
\* held before.
C9_RebuildCorrect ==
  (phase = "done" /\ rebuild_hashes) =>
    /\ logExists
    /\ Len(lines(logFile)) = Cardinality(OutputImages)
    /\ \A i \in OutputImages :
         Count(lines(logFile), to_base64(entries[i].image.hash))
           = Cardinality({j \in OutputImages :
                            entries[j].image.hash = entries[i].image.hash})

\* C9 witness: a finished rebuild over two output images with equal hashes
C9_Witness ==
  /\ phase = "done"
  /\ rebuild_hashes
  /\ \E i \in OutputImages, j \in OutputImages :
       i # j /\ entries[i].image.hash = entries[j].image.hash
  /\ Len(lines(logFile)) = 2

\* C10: Tolerant log loading: for any Log File content the startup load completes
\* and initialises the HashStore to the hashes of the well-formed lines, skipping
\* each malformed line (an absent file gives the empty store).
C10_TolerantLoad ==
  [][phase = "init" =>
       /\ phase' = "open"
       /\ hashesSet'
       /\ HASHES' = init_hashes(logExists, logFile)]_vars

\* C11: A candidate that is Rejected (some stored hash nearer than THRESHOLD) or
\* Failed (decode error) has no side effect: the steps of the admission check, and
\* the step that ends a closure as Rejected or Failed, leave the HashStore, the
\* Log File and the output files unchanged; a worker that is still checking has
\* written no output file.
C11_RejectedFailedNoEffect ==
  [][/\ \A i \in 1..Len(images) :
          (outcome[i] = "none" /\ outcome'[i] \in {"Rejected", "Failed"})
            => UNCHANGED <<outDirExists, entries, logExists, logFile, HASHES>>
     /\ \A w \in Workers :
          (pc[w] \in {"idle", "scan"} /\ pc'[w] # pc[w])
            => /\ UNCHANGED <<outDirExists, entries, logExists, logFile, HASHES>>
               /\ output_path'[w] = 0]_vars

\* a run has ended with a rejected and with an undecodable candidate
C11_Witness ==
  /\ phase = "done"
  /\ Ended("Rejected") # {}
  /\ Ended("Failed") # {}

\* the sequence s ends with the sequence t
EndsWith(s, t) ==
  /\ Len(s) >= Len(t)
  /\ SubSeq(s, Len(s) - Len(t) + 1, Len(s)) = t

\* C12: Line-atomic log appends: a worker that is between the two writes of its
\* line (hash text, then newline) holds the Log File mutex and the file ends with
\* its own hash text, so no byte of another worker's line gets between its text
\* and its newline, for any number of workers.
C12_LineAtomicAppend ==
  \A w \in Workers :
    pc[w] = "write_nl" => logMutex = w /\ EndsWith(logFile, to_base64(hash[w]))

\* one worker is between its two writes while another waits to append its line
C12_Witness ==
  \E w \in Workers, v \in Workers :
    pc[w] = "write_nl" /\ pc[v] = "lock_log"

\* the number of line terminators in s
Newlines(s) == Cardinality({k \in 1..Len(s) : s[k] = NL})

\* the workers whose line is appended and whose hash is not yet in the store
AtPush == {w \in Workers : pc[w] = "push"}

\* C13: Sequential greedy admission: in a single-worker run from the store S0 a
\* decodable candidate passes the check iff its hash is at distance >= THRESHOLD
\* from every stored hash, and the store holds S0 followed by the hashes admitted
\* earlier (an admission pushes exactly that hash, nothing else changes the
\* store); a candidate that does not pass is Rejected; the Log File gains one
\* line terminator per admission; a run without I/O failure that completes has
\* admitted or rejected every decodable, encodable candidate.
C13_SequentialGreedy ==
  [][(threads = 1 /\ phase = "par") =>
       /\ \A w \in Workers :
            (pc[w] = "scan" /\ pc'[w] # "scan") =>
              /\ pc'[w] = "open" <=>
                   \A k \in 1..Len(HASHES) : dist(HASHES[k], hash[w]) >= THRESHOLD
              /\ pc'[w] # "open" => outcome'[img_path[w]] = "Rejected"
       /\ \A i \in 1..Len(images) :
            (outcome[i] = "none" /\ outcome'[i] = "Admitted") =>
              HASHES' = Append(HASHES, images[i].hash)
       /\ (\A i \in 1..Len(images) : outcome[i] = "none" => outcome'[i] # "Admitted")
            => HASHES' = HASHES
       /\ phase' = "par" =>
            Newlines(logFile') - Newlines(logFile)
              = (Cardinality(Ended("Admitted")') + Cardinality(AtPush'))
                  - (Cardinality(Ended("Admitted")) + Cardinality(AtPush))
       /\ (phase' = "done" /\ faults = 0) =>
            \A i \in 1..Len(images) :
              (images[i].decodes /\ images[i].encodes)
                => outcome[i] \in {"Admitted", "Rejected"}]_vars

\* a single-worker run has rejected a candidate at distance THRESHOLD - 1 from a
\* stored hash and admitted one at distance THRESHOLD from every stored hash
C13_Witness ==
  /\ threads = 1
  /\ phase = "done"
  /\ \E i \in Ended("Rejected"), j \in Ended("Admitted"), k \in 1..Len(HASHES) :
       /\ dist(HASHES[k], images[i].hash) = THRESHOLD - 1
       /\ k < Len(HASHES)
       /\ dist(HASHES[k], images[j].hash) = THRESHOLD

\* the sequence s is the start of the sequence t
IsPrefix(s, t) ==
  /\ Len(s) <= Len(t)
  /\ SubSeq(t, 1, Len(s)) = s

\* C14: Monotonic state in a normal run: no step removes or replaces an entry of
\* the HashStore, and the Log File is only appended to (it is not removed, and
\* what it held stays at the same place).
C14_Monotonic ==
  [][~rebuild_hashes =>
       /\ IsPrefix(HASHES, HASHES')
       /\ IsPrefix(logFile, logFile')
       /\ logExists => logExists']_vars

\* a normal run over a Log File that held a hash has admitted a candidate
C14_Witness ==
  /\ ~rebuild_hashes
  /\ phase = "done"
  /\ Ended("Admitted") # {}
  /\ Len(HASHES) > Cardinality(Ended("Admitted"))
  /\ Len(logFile) > Len(LineOf(HA))

\* C15: A missing source directory is fatal at startup: in normal mode without a
\* source directory the run stops before anything happens: no candidate is
\* taken, the output directory is not created, the Log File is neither created
\* nor modified, no output file is written, the store is not initialised.
C15_MissingSourceFatal ==
  [][(~rebuild_hashes /\ ~source_dir) =>
       /\ UNCHANGED <<outDirExists, entries, logExists, logFile>>
       /\ UNCHANGED <<images, store, logLock, workers>>
       /\ phase' = "abort_startup"]_vars

\* the run without a source directory has stopped, the output directory is absent
C15_Witness ==
  /\ ~rebuild_hashes
  /\ ~source_dir
  /\ phase = "abort_startup"
  /\ ~outDirExists

\* C16: Scans see a stable store: while any worker is performing its distance
\* scan it holds the read view and no insert takes place, so a scan compares
\* against the store as it is at one instant; scans exclude inserts, not each other.
C16_StableScan ==
  [][/\ \A w \in Workers : pc[w] = "scan" <=> w \in readers
     /\ (\E w \in Workers : pc[w] = "scan") => HASHES' = HASHES]_vars

\* a worker is scanning while another one waits to insert its hash
C16_Witness ==
  \E w \in Workers, v \in Workers :
    pc[w] = "scan" /\ w \in readers /\ pc[v] = "push"

\* C17: Rebuild mode bypasses normal processing: no candidate is listed, taken or
\* decided, no file of the output directory is created or deleted, the shared
\* HashStore is neither initialised nor changed, no worker of the normal loop
\* runs; the Log File is the only durable state that changes.
C17_RebuildBypasses ==
  [][rebuild_hashes =>
       /\ UNCHANGED <<outDirExists, entries>>
       /\ UNCHANGED <<hashesSet, HASHES, readers, logLock>>
       /\ UNCHANGED <<images, pc, img_path, hash, output_path, outcome>>
       /\ ~hashesSet /\ images = <<>>]_vars

\* a rebuild that was given a source directory with an image has rewritten the
\* Log File with the hash of an output image
C17_Witness ==
  /\ rebuild_hashes
  /\ source_dir /\ srcTree # <<>>
  /\ phase = "done"
  /\ Len(hashes) > 0
  /\ logFile # <<>>

\* C18: Deadlock freedom and completion: no worker holds the HashStore lock and
\* the Log File mutex at the same time (the only writer of the store is a worker
\* at its insert), and a worker has released its read view before it asks for
\* the write lock; no candidate is decided twice; under fair scheduling with all
\* I/O succeeding a run that has started its loop ends with every discovered
\* candidate processed.
C18_DeadlockFree ==
  /\ [](\A w \in Workers :
          /\ ~(w \in readers /\ logMutex = w)
          /\ logMutex = w => pc[w] = "write_nl"
          /\ pc[w] \in {"write_nl", "push"} => w \notin readers)
  /\ [][\A i \in 1..Len(images) : outcome[i] # "none" => outcome'[i] = outcome[i]]_vars
  /\ phase = "par" ~>
       (/\ phase = "done"
        /\ pending = {}
        /\ \A i \in 1..Len(images) : outcome[i] # "none")

\* a run of several workers has ended with two candidates admitted: each of them
\* took the read view, the Log File mutex and the write lock in turn
C18_Witness ==
  /\ phase = "done"
  /\ threads > 1
  /\ Cardinality(Ended("Admitted")) > 1

\* the sequence t occurs in the sequence s, in one piece
Contains(s, t) ==
  \E p \in 0..(Len(s) - Len(t)) : SubSeq(s, p + 1, p + Len(t)) = t

\* C19: Ordering of the durable effects of an admitted item: a worker that is
\* about to append its line, or has appended it, has written its output file; a
\* hash is inserted into the store only by a worker whose whole line is in the
\* Log File; the lines appended during the run (one per admitted item and per
\* worker waiting to insert) are never more than the output files written during
\* the run.
C19_EffectOrder ==
  /\ [](\A w \in Workers :
          /\ pc[w] \in {"lock_log", "write_nl", "push"} =>
               /\ output_path[w] \in 1..Len(entries)
               /\ entries[output_path[w]] = Entry(TRUE, TRUE, images[img_path[w]])
          /\ pc[w] = "push" => Contains(logFile, LineOf(hash[w])))
  /\ [](~rebuild_hashes =>
          Cardinality(Ended("Admitted")) + Cardinality(AtPush) <= Len(entries))
  /\ [][phase = "par" =>
          /\ HASHES' # HASHES =>
               \E w \in Workers :
                 /\ pc[w] = "push"
                 /\ HASHES' = Append(HASHES, hash[w])
                 /\ Contains(logFile, LineOf(hash[w]))
          /\ phase' = "par" =>
               Newlines(logFile') - Newlines(logFile)
                 = (Cardinality(Ended("Admitted")') + Cardinality(AtPush'))
                     - (Cardinality(Ended("Admitted")) + Cardinality(AtPush))]_vars

\* one worker has appended its line and waits to insert its hash, another has
\* written its output file and waits to append its line
C19_Witness ==
  \E w \in Workers, v \in Workers :
    pc[w] = "push" /\ pc[v] = "lock_log"

\* C20: Rebuild does not destroy the old log on failure: the Log File is created,
\* truncated or written only after every output image has been hashed (nothing
\* is left to hash, no closure has panicked, one hash is collected per output
\* image); a rebuild in which the decoding of an output file fails never opens
\* the Log File: it ends in the abort, the Log File as it was.
C20_RebuildKeepsLogOnFailure ==
  /\ [][(rebuild_hashes /\ (logFile' # logFile \/ logExists' # logExists)) =>
          /\ phase \in {"rb_hash", "rb_write"}
          /\ pending = {}
          /\ ~panicked
          /\ Len(hashes) = Cardinality(OutputImages)]_vars
  /\ []((rebuild_hashes /\ panicked) => phase \in {"rb_hash", "abort_run"})

\* a rebuild over a Log File with content has aborted on an undecodable output file
C20_Witness ==
  /\ rebuild_hashes
  /\ panicked
  /\ phase = "abort_run"
  /\ logExists
  /\ logFile # <<>>

====
